---- MODULE Spec2Model ----
(***************************************************************************)
(* Model of nettools/port_tools/port_scanner.py: the TCP connect probe     *)
(* scan_port and the thread-pool coordinator scan_ports.                   *)
(*                                                                         *)
(* A call of scan_ports is one behaviour: Call parses, expands and         *)
(* validates the port spec, creates the ThreadPoolExecutor and submits one *)
(* _scan_worker task per port (executor.map submits eagerly and yields the *)
(* results in submission order).  Worker threads take tasks from the FIFO  *)
(* work queue, at most max_workers at a time; each task is one scan_port   *)
(* call, which blocks once, in connect_ex.  The calling thread collects    *)
(* the results in order, leaves the with-block (shutdown(wait=True)) and   *)
(* returns.  A KeyboardInterrupt may hit the calling thread at any point.  *)
(* A direct call of scan_port by a caller is modelled by the same probe    *)
(* operators, run in the calling thread.  find_service_ports is one step   *)
(* of the calling thread.  SpecCommon is a call of scan_common_ports,      *)
(* SpecRepeat a sequence of scan_ports calls.                              *)
(***************************************************************************)
EXTENDS Integers, Sequences, FiniteSets, Bags, TLC

VARIABLES
    pc,             \* position of the calling thread
    port_range,     \* argument of scan_ports
    max_workers,    \* argument of scan_ports
    verbose,        \* argument of scan_ports
    resolvable,     \* whether the target name resolves
    ports_to_scan,  \* the expanded port sequence
    futures,        \* one record per submitted _scan_worker task
    results,        \* scan_ports' local results
    open_ports,     \* scan_ports' local open_ports
    yielded,        \* the futures whose results executor.map has yielded
    console,        \* bag of the messages printed
    ret,            \* the value scan_ports returned
    executor,       \* state of the ThreadPoolExecutor
    probe,          \* the scan_port call made directly by a caller
    hist,           \* history: observations the claims are about
    fsp,            \* the find_service_ports call made by a caller
    parse           \* a textual port input and what the two parsers made of it

vars == <<pc, port_range, max_workers, verbose, resolvable, ports_to_scan,
          futures, results, open_ports, yielded, console, ret, executor,
          probe, hist, fsp, parse>>

----------------------------------------------------------------------------
(* Bounds of the model *)

MaxLen == 3         \* longest explicit port list, widest range
MaxWorkers == 2     \* largest max_workers tried besides the default
MaxInFlight == 2    \* most probes connecting at a time in a common-ports scan
MaxCalls == 2       \* most scan_ports calls made one after another
MaxText == 5        \* longest textual port input

(* Program constants *)

MinPort == 0
MaxPort == 65535
DefaultMaxWorkers == 100

\* no result yet: the probe has not returned, scan_ports has not returned
None == <<>>

\* port numbers a caller may pass; the valid ones include both ends of the
\* valid interval, the invalid ones lie just outside it and far outside it
ListPorts == {-1, MinPort, MaxPort, MaxPort + 1}
ProbePorts == ListPorts \cup {22, 80, 443, 5432, 70000}
RangeEnds == {-1, MinPort, 1, MaxPort, MaxPort + 1}

SeqsUpTo(S, n) == UNION {[1..k -> S] : k \in 0..n}

\* the lists tried: every list of up to two ports, every longer list that
\* holds a port out of range, and of the longer lists of valid ports those
\* that change port at every position (unsorted, with ports repeated)
PortLists ==
    {s \in SeqsUpTo(ListPorts, MaxLen) :
        \/ Len(s) <= 2
        \/ \E i \in 1..Len(s) : s[i] < MinPort \/ s[i] > MaxPort
        \/ \A i \in 1..(Len(s) - 1) : s[i] # s[i + 1]}

\* the port_range arguments tried: 2-tuples (ranges), lists, other tuples,
\* and a string
PortRanges ==
    {[kind |-> "tuple", val |-> x] :
        x \in {y \in RangeEnds \X RangeEnds :
                  y[1] - y[2] < MaxLen /\ y[2] - y[1] < MaxLen}}
    \cup {[kind |-> "list", val |-> s] : s \in PortLists}
    \cup {[kind |-> "tuple", val |-> <<80>>],
          [kind |-> "tuple", val |-> <<22, 80, 443>>],
          [kind |-> "str", val |-> <<>>]}

WorkerCounts == (0..MaxWorkers) \cup {DefaultMaxWorkers}

----------------------------------------------------------------------------
(* the table of well-known services *)

\* lines 242-247: the dict common_services, in insertion order
common_services ==
    <<
      [svc |-> <<"f", "t", "p">>, port |-> 21],
      [svc |-> <<"s", "s", "h">>, port |-> 22],
      [svc |-> <<"t", "e", "l", "n", "e", "t">>, port |-> 23],
      [svc |-> <<"s", "m", "t", "p">>, port |-> 25],
      [svc |-> <<"d", "n", "s">>, port |-> 53],
      [svc |-> <<"h", "t", "t", "p">>, port |-> 80],
      [svc |-> <<"p", "o", "p", "3">>, port |-> 110],
      [svc |-> <<"s", "f", "t", "p">>, port |-> 115],
      [svc |-> <<"i", "m", "a", "p">>, port |-> 143],
      [svc |-> <<"h", "t", "t", "p", "s">>, port |-> 443],
      [svc |-> <<"s", "m", "b">>, port |-> 445],
      [svc |-> <<"m", "y", "s", "q", "l">>, port |-> 3306],
      [svc |-> <<"r", "d", "p">>, port |-> 3389],
      [svc |-> <<"p", "o", "s", "t", "g", "r", "e", "s", "q", "l">>, port |-> 5432],
      [svc |-> <<"v", "n", "c">>, port |-> 5900]
    >>

\* a name as a string
RECURSIVE Text(_)
Text(name) == IF name = <<>> THEN "" ELSE name[1] \o Text(Tail(name))

\* the table read from port to name
name_for_port(port) ==
    LET e == CHOOSE x \in {common_services[k] : k \in 1..Len(common_services)} :
                 x.port = port
    IN Text(e.svc)

----------------------------------------------------------------------------
(* scan_port *)

\* the upper bound is off by one
InRange_OffByOne(port) == MinPort <= port /\ port <= MaxPort + 1

\* lines 37, 140
InRange(port) == MinPort <= port /\ port <= MaxPort

Msg(kind, args) == <<kind, args>>

\* what connect_ex does: return 0, return an errno, or raise
ConnectReturns == {"zero", "ECONNREFUSED", "EWOULDBLOCK"}
\* what getservbyport does: return a name, raise OSError, raise another error
Lookups == {"name", "OSError", "Exception"}

ConnectOutcomes(res) ==
    IF res THEN ConnectReturns \cup {"socket.error", "Exception"}
           ELSE {"gaierror"}

\* the name the OS service database holds for a port
getservbyport(port) == "svc" \o ToString(port)

\* a scan_port call that has not started
NewProbe(port) == [port |-> port, st |-> "pending", result |-> None,
                   sock |-> "none"]

\* a scan_port call ends with (port, False, "") and prints one message
Absorb(p, kind, args) ==
    [probe |-> [p EXCEPT !.st = "done", !.result = <<p.port, FALSE, "">>],
     says |-> SetToBag({Msg(kind, args)})]

\* the gaierror clause is missing: a gaierror is an OSError and is taken by
\* the socket.error clause
Handled_GaierrorAsSocketError(p, exc) ==
    CASE exc \in {"gaierror", "socket.error"} ->
           Absorb(p, "ConnectError", <<p.port>>)
      [] exc = "ValueError" -> Absorb(p, "InvalidPort", <<p.port>>)
      [] OTHER -> Absorb(p, "Unexpected", <<>>)

\* only gaierror and ValueError are handled: a socket error leaves scan_port
Handled_SocketErrorEscapes(p, exc) ==
    CASE exc = "gaierror" -> Absorb(p, "Unresolved", <<>>)
      [] exc = "ValueError" -> Absorb(p, "InvalidPort", <<p.port>>)
      [] OTHER -> [probe |-> [p EXCEPT !.st = "raised"], says |-> EmptyBag]

\* lines 59-70: the handlers of scan_port, tried in order; every one prints
\* and returns (port, False, "") without closing the socket
Handled(p, exc) ==
    CASE exc = "gaierror" -> Absorb(p, "Unresolved", <<>>)
      [] exc = "socket.error" -> Absorb(p, "ConnectError", <<p.port>>)
      [] exc = "ValueError" -> Absorb(p, "InvalidPort", <<p.port>>)
      [] OTHER -> Absorb(p, "Unexpected", <<>>)

\* lines 35-42: validate the port, create the socket.  The value is the
\* probe after the step and the messages the step prints.
scan_port_begin(p) ==
    IF ~InRange(p.port)
    THEN Handled(p, "ValueError")
    ELSE [probe |-> [p EXCEPT !.st = "connecting", !.sock = "open"],
          says |-> EmptyBag]

\* the label of an open port is left empty when the lookup finds nothing
scan_port_end_NoFallback(p, outcome, lookup) ==
    CASE outcome = "zero" /\ lookup # "Exception" ->
           [probe |-> [p EXCEPT !.st = "done", !.sock = "closed",
                         !.result = <<p.port, TRUE,
                              IF lookup = "name" THEN getservbyport(p.port)
                                                 ELSE "">>],
            says |-> EmptyBag]
      [] outcome = "zero" /\ lookup = "Exception" -> Handled(p, "Exception")
      [] outcome \in ConnectReturns \ {"zero"} ->
           [probe |-> [p EXCEPT !.st = "done", !.sock = "closed",
                         !.result = <<p.port, FALSE, "">>],
            says |-> EmptyBag]
      [] OTHER -> Handled(p, outcome)

\* the lookup is made whether or not the connection succeeded
scan_port_end_LabelsClosed(p, outcome, lookup) ==
    CASE outcome = "zero" /\ lookup # "Exception" ->
           [probe |-> [p EXCEPT !.st = "done", !.sock = "closed",
                         !.result = <<p.port, TRUE,
                              IF lookup = "name" THEN getservbyport(p.port)
                                                 ELSE "unknown">>],
            says |-> EmptyBag]
      [] outcome = "zero" /\ lookup = "Exception" -> Handled(p, "Exception")
      [] outcome \in ConnectReturns \ {"zero"} ->
           [probe |-> [p EXCEPT !.st = "done", !.sock = "closed",
                         !.result = <<p.port, FALSE, getservbyport(p.port)>>],
            says |-> EmptyBag]
      [] OTHER -> Handled(p, outcome)

\* the table of well-known services is consulted before the OS database
scan_port_end_StaticFirst(p, outcome, lookup) ==
    CASE outcome = "zero" /\ lookup # "Exception" ->
           [probe |-> [p EXCEPT !.st = "done", !.sock = "closed",
                         !.result = <<p.port, TRUE,
                              IF \E k \in 1..Len(common_services) :
                                     common_services[k].port = p.port
                              THEN name_for_port(p.port)
                              ELSE IF lookup = "name"
                              THEN getservbyport(p.port)
                              ELSE "unknown">>],
            says |-> EmptyBag]
      [] outcome = "zero" /\ lookup = "Exception" -> Handled(p, "Exception")
      [] outcome \in ConnectReturns \ {"zero"} ->
           [probe |-> [p EXCEPT !.st = "done", !.sock = "closed",
                         !.result = <<p.port, FALSE, "">>],
            says |-> EmptyBag]
      [] OTHER -> Handled(p, outcome)

\* a probe that timed out is queued again
scan_port_end_RetriesTimeout(p, outcome, lookup) ==
    CASE outcome = "zero" /\ lookup # "Exception" ->
           [probe |-> [p EXCEPT !.st = "done", !.sock = "closed",
                         !.result = <<p.port, TRUE,
                              IF lookup = "name" THEN getservbyport(p.port)
                                                 ELSE "unknown">>],
            says |-> EmptyBag]
      [] outcome = "zero" /\ lookup = "Exception" -> Handled(p, "Exception")
      [] outcome = "EWOULDBLOCK" ->
           [probe |-> [p EXCEPT !.st = "pending", !.sock = "closed"],
            says |-> EmptyBag]
      [] outcome \in ConnectReturns \ {"zero"} ->
           [probe |-> [p EXCEPT !.st = "done", !.sock = "closed",
                         !.result = <<p.port, FALSE, "">>],
            says |-> EmptyBag]
      [] OTHER -> Handled(p, outcome)

\* lines 45-57: connect_ex returns or raises, the service lookup, the close.
\* sock.close() is reached on the path through line 56 only.
scan_port_end(p, outcome, lookup) ==
    CASE outcome = "zero" /\ lookup # "Exception" ->
           [probe |-> [p EXCEPT !.st = "done", !.sock = "closed",
                         !.result = <<p.port, TRUE,
                              IF lookup = "name" THEN getservbyport(p.port)
                                                 ELSE "unknown">>],
            says |-> EmptyBag]
      [] outcome = "zero" /\ lookup = "Exception" -> Handled(p, "Exception")
      [] outcome \in ConnectReturns \ {"zero"} ->
           [probe |-> [p EXCEPT !.st = "done", !.sock = "closed",
                         !.result = <<p.port, FALSE, "">>],
            says |-> EmptyBag]
      [] OTHER -> Handled(p, outcome)

\* the lookup outcomes that matter for a connect outcome
LookupsFor(outcome) == IF outcome = "zero" THEN Lookups ELSE {"name"}

----------------------------------------------------------------------------
(* scan_ports *)

\* the end of the range is left out: range(a, b)
Range_ExclusiveEnd(a, b) == [i \in 1..(b - a) |-> a + i - 1]

\* line 132: list(range(a, b + 1))
Range(a, b) == [i \in 1..(b - a + 1) |-> a + i - 1]

\* a reversed range is expanded downwards instead of being swapped
ExpandPorts_Descending(pr) ==
    IF pr.kind = "tuple" /\ Len(pr.val) = 2
    THEN IF pr.val[1] > pr.val[2]
         THEN [ok |-> TRUE,
               ports |-> [i \in 1..(pr.val[1] - pr.val[2] + 1) |->
                             pr.val[1] - i + 1]]
         ELSE [ok |-> TRUE, ports |-> Range(pr.val[1], pr.val[2])]
    ELSE IF pr.kind = "list"
    THEN [ok |-> TRUE, ports |-> pr.val]
    ELSE [ok |-> FALSE, ports |-> <<>>]

\* an explicit list is sorted and stripped of repeated ports
ExpandPorts_SortsList(pr) ==
    IF pr.kind = "tuple" /\ Len(pr.val) = 2
    THEN LET start == IF pr.val[1] > pr.val[2] THEN pr.val[2] ELSE pr.val[1]
             end == IF pr.val[1] > pr.val[2] THEN pr.val[1] ELSE pr.val[2]
         IN [ok |-> TRUE, ports |-> Range(start, end)]
    ELSE IF pr.kind = "list"
    THEN LET S == {pr.val[k] : k \in 1..Len(pr.val)}
         IN [ok |-> TRUE,
             ports |-> CHOOSE q \in [1..Cardinality(S) -> S] :
                          \A i, j \in 1..Cardinality(S) : i < j => q[i] < q[j]]
    ELSE [ok |-> FALSE, ports |-> <<>>]

\* a tuple of any length other than two is taken as an explicit list
ExpandPorts_AnyTuple(pr) ==
    IF pr.kind = "tuple" /\ Len(pr.val) = 2
    THEN LET start == IF pr.val[1] > pr.val[2] THEN pr.val[2] ELSE pr.val[1]
             end == IF pr.val[1] > pr.val[2] THEN pr.val[1] ELSE pr.val[2]
         IN [ok |-> TRUE, ports |-> Range(start, end)]
    ELSE IF pr.kind \in {"list", "tuple"}
    THEN [ok |-> TRUE, ports |-> pr.val]
    ELSE [ok |-> FALSE, ports |-> <<>>]

\* lines 126-136: the list of ports to scan, or the format error
ExpandPorts(pr) ==
    IF pr.kind = "tuple" /\ Len(pr.val) = 2
    THEN LET start == IF pr.val[1] > pr.val[2] THEN pr.val[2] ELSE pr.val[1]
             end == IF pr.val[1] > pr.val[2] THEN pr.val[1] ELSE pr.val[2]
         IN [ok |-> TRUE, ports |-> Range(start, end)]
    ELSE IF pr.kind = "list"
    THEN [ok |-> TRUE, ports |-> pr.val]
    ELSE [ok |-> FALSE, ports |-> <<>>]

\* the validation reports the last offending port, not the first
FirstInvalid_Last(ports) ==
    LET bad == {i \in 1..Len(ports) : ~InRange(ports[i])}
    IN IF bad = {} THEN 0 ELSE CHOOSE i \in bad : \A j \in bad : i >= j

\* lines 139-141: the index of the first port out of range, 0 if none
FirstInvalid(ports) ==
    LET bad == {i \in 1..Len(ports) : ~InRange(ports[i])}
    IN IF bad = {} THEN 0 ELSE CHOOSE i \in bad : \A j \in bad : i <= j

IsOpen(result) == result[2]

Running == {i \in 1..Len(futures) : futures[i].st = "connecting"}
Pending == {i \in 1..Len(futures) : futures[i].st = "pending"}

\* the results of the futures named by a sequence of indices
ResultsOf(idx) == [k \in 1..Len(idx) |-> futures[idx[k]].result]

Say(m) == console (+) SetToBag({m})

\* a thread per port
WorkerLimit_PerPort == Len(futures)

\* line 155: the pool runs at most max_workers threads, one task each
WorkerLimit == max_workers

\* results are taken as the probes complete (as_completed)
NextToYield_AsCompleted ==
    LET taken == {yielded[k] : k \in 1..Len(yielded)}
        left == (1..Len(futures)) \ taken
        ready == {i \in left : futures[i].st \in {"done", "raised"}}
    IN IF left = {} THEN 0
       ELSE IF ready # {} THEN CHOOSE i \in ready : \A j \in ready : i >= j
       ELSE CHOOSE i \in left : TRUE

\* lines 167, 174: executor.map yields the results in the order the tasks
\* were submitted, whatever the order they complete in; 0 when exhausted
NextToYield == IF Len(yielded) < Len(futures) THEN Len(yielded) + 1 ELSE 0

\* the history at the start of a call
NoHist == [outOfOrder |-> FALSE, interrupted |-> FALSE,
           openAtInterrupt |-> <<>>, lookup |-> "none", calls |-> 0,
           prev |-> "none", via |-> "none", progress |-> 0]

\* how the scan_ports call before this one ended
HowEnded ==
    IF pc = "idle" THEN "none"
    ELSE IF hist.interrupted THEN "interrupted"
    ELSE IF executor = "none" THEN "rejected"
    ELSE IF NextToYield = 0 THEN "returned"
    ELSE "failed"

\* results and open_ports are module-level lists, created once
NewList_Shared(old) == old

\* lines 151-152: results = [] and open_ports = [] are locals of the call
NewList(old) == <<>>

\* there is no clause for KeyboardInterrupt, which is not an Exception
scan_ports_catches_NoInterrupt(exc) == exc \in {"ValueError", "Exception"}

\* lines 196, 199, 202: the clauses of the try of scan_ports
scan_ports_catches(exc) ==
    exc \in {"ValueError", "KeyboardInterrupt", "Exception"}

\* how scan_ports is left on an exception: a clause that takes it returns
\* [], otherwise the exception goes on to the caller
Leaves(exc) ==
    IF scan_ports_catches(exc) THEN [pc |-> "done", ret |-> <<>>]
                               ELSE [pc |-> "raised", ret |-> None]

\* only a negative number of workers is refused
PoolRejects_NegativeOnly(mw) == mw < 0

\* line 155: ThreadPoolExecutor raises ValueError when max_workers <= 0
PoolRejects(mw) == mw <= 0

\* lines 103-155 and the submission of executor.map: everything up to the
\* first wait of the calling thread.  The messages recorded are those of
\* the call; printed holds what the caller of scan_ports printed before it,
\* via names the function the caller entered through.
Enter(pr, mw, vb, res, printed, via) ==
    /\ pc \in {"idle", "done"}
    /\ port_range' = pr
    /\ max_workers' = mw
    /\ verbose' = vb
    /\ resolvable' = res
    /\ results' = NewList(results)
    /\ open_ports' = NewList(open_ports)
    /\ yielded' = <<>>
    /\ hist' = [NoHist EXCEPT !.calls = hist.calls + 1, !.prev = HowEnded,
                              !.via = via]
    /\ UNCHANGED <<probe, fsp, parse>>
    /\ LET exp == ExpandPorts(pr)
           bad == FirstInvalid(exp.ports)
           said(m) == printed (+) SetToBag({m})
           started == IF vb THEN said(Msg("Scanning", <<Len(exp.ports)>>))
                            ELSE printed
       IN /\ ports_to_scan' = exp.ports
          /\ IF ~exp.ok
             THEN /\ console' = said(Msg("InvalidFormat", <<>>))
                  /\ ret' = Leaves("ValueError").ret
                  /\ pc' = Leaves("ValueError").pc
                  /\ futures' = <<>>
                  /\ executor' = "none"
             ELSE IF bad # 0
             THEN /\ console' = said(Msg("InvalidPort", <<exp.ports[bad]>>))
                  /\ ret' = Leaves("ValueError").ret
                  /\ pc' = Leaves("ValueError").pc
                  /\ futures' = <<>>
                  /\ executor' = "none"
             ELSE IF PoolRejects(mw)
             THEN /\ console' = started (+) SetToBag({Msg("InvalidWorkers", <<>>)})
                  /\ ret' = Leaves("ValueError").ret
                  /\ pc' = Leaves("ValueError").pc
                  /\ futures' = <<>>
                  /\ executor' = "none"
             ELSE /\ console' = started
                  /\ executor' = "running"
                  /\ futures' = [i \in 1..Len(exp.ports) |-> NewProbe(exp.ports[i])]
                  /\ pc' = "collecting"
                  /\ ret' = None

\* a call of scan_ports by a caller
Call(pr, mw, vb, res) == Enter(pr, mw, vb, res, EmptyBag, "scan_ports")

\* a shorter list of ports
common_ports_Top3 == <<22, 80, 443>>

\* lines 219-222
common_ports ==
    <<21, 22, 23, 25, 53, 80, 110, 115, 135, 139,
      143, 194, 443, 445, 1433, 3306, 3389, 5632, 5900, 8080>>

\* lines 206-227: scan_common_ports prints its headline when verbose and
\* returns scan_ports(target, common_ports, timeout, verbose=verbose);
\* max_workers is not passed and takes its default
scan_common_ports(vb, res) ==
    Enter([kind |-> "list", val |-> common_ports], DefaultMaxWorkers, vb, res,
          IF vb THEN SetToBag({Msg("ScanningCommon", <<>>)}) ELSE EmptyBag,
          "scan_common_ports")

\* a worker thread takes the head of the work queue and runs _scan_worker
\* up to the connect call (lines 72-83, 35-45)
scan_worker_start(i) ==
    /\ i \in Pending
    /\ \A j \in Pending : i <= j
    /\ Cardinality(Running) < WorkerLimit
    /\ futures' = [futures EXCEPT ![i] = scan_port_begin(@).probe]
    /\ console' = console (+) scan_port_begin(futures[i]).says
    /\ UNCHANGED <<pc, port_range, max_workers, verbose, resolvable,
                   ports_to_scan, results, open_ports, yielded, ret, executor,
                   probe, hist, fsp, parse>>

\* the worker appends its result to the shared list itself
scan_worker_finish_Appends(i, outcome, lookup) ==
    /\ i \in Running
    /\ futures' = [futures EXCEPT ![i] = scan_port_end(@, outcome, lookup).probe]
    /\ console' = console (+) scan_port_end(futures[i], outcome, lookup).says
    /\ results' = Append(results, futures'[i].result)
    /\ hist' = [hist EXCEPT !.outOfOrder =
                    @ \/ \E j \in 1..(i - 1) : futures[j].st = "connecting"]
    /\ UNCHANGED <<pc, port_range, max_workers, verbose, resolvable,
                   ports_to_scan, open_ports, yielded, ret, executor,
                   probe, fsp, parse>>

\* connect_ex returns or raises in a worker; the probe runs to its return
scan_worker_finish(i, outcome, lookup) ==
    /\ i \in Running
    /\ futures' = [futures EXCEPT ![i] = scan_port_end(@, outcome, lookup).probe]
    /\ console' = console (+) scan_port_end(futures[i], outcome, lookup).says
    /\ hist' = [hist EXCEPT !.outOfOrder =
                    @ \/ \E j \in 1..(i - 1) : futures[j].st = "connecting"]
    /\ UNCHANGED <<pc, port_range, max_workers, verbose, resolvable,
                   ports_to_scan, results, open_ports, yielded, ret, executor,
                   probe, fsp, parse>>

\* the futures as they are after the iterator of executor.map is closed:
\* those that have not started are cancelled
CancelPending ==
    [i \in 1..Len(futures) |->
        IF futures[i].st = "pending"
        THEN [futures[i] EXCEPT !.st = "cancelled"]
        ELSE futures[i]]

\* the counter shows the index of enumerate
ProgressAfter_ZeroBased(i) == i

\* line 168: the progress counter after the result of index i (from 0) is
\* taken
ProgressAfter(i) == i + 1

\* lines 167-171 and 174: the calling thread takes the next result of
\* executor.map.  A task that raised re-raises here, which ends the
\* with-block and leads to the handler of lines 202-204.
Collect ==
    /\ pc = "collecting"
    /\ NextToYield # 0
    /\ LET f == futures[NextToYield] IN
         /\ f.st \in {"done", "raised"}
         /\ IF f.st = "raised"
            THEN /\ pc' = "failed"
                 /\ futures' = CancelPending
                 /\ executor' = "shutdown"
                 /\ UNCHANGED <<yielded, results, open_ports>>
            ELSE /\ yielded' = Append(yielded, NextToYield)
                 /\ IF verbose
                    THEN /\ results' = Append(results, f.result)
                         /\ open_ports' = IF IsOpen(f.result)
                                          THEN Append(open_ports, f.result)
                                          ELSE open_ports
                    ELSE UNCHANGED <<results, open_ports>>
                 /\ UNCHANGED <<pc, futures, executor>>
    /\ hist' = IF verbose /\ futures[NextToYield].st = "done"
               THEN [hist EXCEPT !.progress = ProgressAfter(Len(yielded))]
               ELSE hist
    /\ UNCHANGED <<port_range, max_workers, verbose, resolvable,
                   ports_to_scan, console, ret, probe, fsp, parse>>

\* every result is returned, open or not
Return_Unfiltered ==
    /\ pc = "collecting"
    /\ NextToYield = 0
    /\ results' = IF verbose THEN results ELSE ResultsOf(yielded)
    /\ open_ports' = results'
    /\ executor' = "shutdown"
    /\ console' = IF verbose
                  THEN Say(Msg("Found", <<Len(open_ports'), Len(ports_to_scan)>>))
                  ELSE console
    /\ ret' = open_ports'
    /\ pc' = "done"
    /\ UNCHANGED <<port_range, max_workers, verbose, resolvable,
                   ports_to_scan, futures, yielded, probe, hist, fsp, parse>>

\* lines 174-194: executor.map is exhausted; the with-block ends, the
\* summary is printed, open_ports is returned
Return ==
    /\ pc = "collecting"
    /\ NextToYield = 0
    /\ results' = IF verbose THEN results ELSE ResultsOf(yielded)
    /\ open_ports' = IF verbose THEN open_ports
                                ELSE SelectSeq(ResultsOf(yielded), IsOpen)
    /\ executor' = "shutdown"
    /\ console' = IF verbose
                  THEN Say(Msg("Found", <<Len(open_ports'), Len(ports_to_scan)>>))
                  ELSE console
    /\ ret' = open_ports'
    /\ pc' = "done"
    /\ UNCHANGED <<port_range, max_workers, verbose, resolvable,
                   ports_to_scan, futures, yielded, probe, hist, fsp, parse>>

\* the interrupt leaves the queued tasks in the queue
Interrupt_LeavesQueue ==
    /\ pc = "collecting"
    /\ executor' = "shutdown"
    /\ hist' = [hist EXCEPT !.interrupted = TRUE,
                            !.openAtInterrupt =
                                SelectSeq(ResultsOf(yielded), IsOpen)]
    /\ pc' = "interrupted"
    /\ UNCHANGED <<port_range, max_workers, verbose, resolvable,
                   ports_to_scan, futures, results, open_ports, yielded,
                   console, ret, probe, fsp, parse>>

\* KeyboardInterrupt in the calling thread inside the with-block: the
\* iterator of executor.map is closed, which cancels the futures that have
\* not started; the with-block's exit then waits for the workers
Interrupt ==
    /\ pc = "collecting"
    /\ futures' = CancelPending
    /\ executor' = "shutdown"
    /\ hist' = [hist EXCEPT !.interrupted = TRUE,
                            !.openAtInterrupt =
                                SelectSeq(ResultsOf(yielded), IsOpen)]
    /\ pc' = "interrupted"
    /\ UNCHANGED <<port_range, max_workers, verbose, resolvable,
                   ports_to_scan, results, open_ports, yielded, console, ret,
                   probe, fsp, parse>>

\* the handler returns without the workers having been joined
InterruptReturn_NoWait ==
    /\ pc \in {"interrupted", "failed"}
    /\ console' = IF pc = "interrupted" THEN Say(Msg("Interrupted", <<>>))
                                        ELSE Say(Msg("Unexpected", <<>>))
    /\ ret' = <<>>
    /\ pc' = "done"
    /\ UNCHANGED <<port_range, max_workers, verbose, resolvable,
                   ports_to_scan, futures, results, open_ports, yielded,
                   executor, probe, hist, fsp, parse>>

\* lines 199-204: the with-block's exit has joined the workers; the
\* handler prints and returns []
InterruptReturn ==
    /\ pc \in {"interrupted", "failed"}
    /\ Running = {}
    /\ LET exc == IF pc = "interrupted" THEN "KeyboardInterrupt"
                                        ELSE "Exception"
       IN /\ console' = IF ~scan_ports_catches(exc) THEN console
                        ELSE IF pc = "interrupted"
                        THEN Say(Msg("Interrupted", <<>>))
                        ELSE Say(Msg("Unexpected", <<>>))
          /\ ret' = Leaves(exc).ret
          /\ pc' = Leaves(exc).pc
    /\ UNCHANGED <<port_range, max_workers, verbose, resolvable,
                   ports_to_scan, futures, results, open_ports, yielded,
                   executor, probe, hist, fsp, parse>>

----------------------------------------------------------------------------
(* a direct call of scan_port *)

ProbeCall(port, res) ==
    /\ pc = "idle"
    /\ resolvable' = res
    /\ probe' = scan_port_begin(NewProbe(port)).probe
    /\ console' = console (+) scan_port_begin(NewProbe(port)).says
    /\ pc' = IF probe'.st = "done" THEN "done" ELSE "probing"
    /\ UNCHANGED <<port_range, max_workers, verbose, ports_to_scan, futures,
                   results, open_ports, yielded, ret, executor, hist, fsp, parse>>

ProbeReturn(outcome, lookup) ==
    /\ pc = "probing"
    /\ probe' = scan_port_end(probe, outcome, lookup).probe
    /\ console' = console (+) scan_port_end(probe, outcome, lookup).says
    /\ pc' = "done"
    /\ hist' = [hist EXCEPT !.lookup = IF outcome = "zero" THEN lookup
                                                           ELSE "none"]
    /\ UNCHANGED <<port_range, max_workers, verbose, resolvable,
                   ports_to_scan, futures, results, open_ports, yielded, ret,
                   executor, fsp, parse>>

----------------------------------------------------------------------------

(* find_service_ports *)

\* a name is the sequence of its characters
UpperCase ==
    <<"A", "B", "C", "D", "E", "F", "G", "H", "I", "J", "K", "L", "M", "N", "O", "P", "Q", "R", "S", "T", "U", "V", "W", "X", "Y", "Z">>
LowerCase ==
    <<"a", "b", "c", "d", "e", "f", "g", "h", "i", "j", "k", "l", "m", "n", "o", "p", "q", "r", "s", "t", "u", "v", "w", "x", "y", "z">>

\* line 250: str.lower()
lower(name) ==
    [i \in 1..Len(name) |->
        IF \E k \in 1..Len(UpperCase) : UpperCase[k] = name[i]
        THEN LowerCase[CHOOSE k \in 1..Len(UpperCase) : UpperCase[k] = name[i]]
        ELSE name[i]]

\* line 252: a in b for two strings, a occurs in b as a substring
In(a, b) == \E i \in 0..(Len(b) - Len(a)) : SubSeq(b, i + 1, i + Len(a)) = a

\* the service names a caller asks for
ServiceNames ==
    {
     <<"h", "t", "t", "p">>,
     <<"H", "T", "T", "P">>,
     <<"h", "t", "t", "p", "s">>,
     <<"m", "a", "i", "l">>,
     <<"M", "a", "i", "l">>,
     <<"s", "m", "t", "p">>,
     <<"f", "t", "p">>,
     <<"p">>,
     <<>>,
     <<"c", "u", "s", "t", "o", "m", "-", "h", "t", "t", "p">>,
     <<"n", "o", "n", "e", "x", "i", "s", "t", "e", "n", "t", "s", "e", "r", "v", "i", "c", "e", "1", "2", "3">>,
     <<"x", "y", "z">>,
     <<"p", "o", "s", "t", "g", "r", "e", "s", "q", "l">>,
     <<"s", "s">>,
     <<"m", "y", "s", "q", "l", "-", "d", "b">>
    }

\* the ports the OS service database may hold for a name
OsPorts == {25, 80, 8080}

\* what getservbyname does: return a port, raise OSError, raise another
\* error
GetServByName ==
    {[raises |-> "none", port |-> p] : p \in OsPorts}
    \cup {[raises |-> "OSError", port |-> 0],
          [raises |-> "Exception", port |-> 0]}

Elems(s) == {s[k] : k \in 1..Len(s)}

\* lines 250-253: the ports of the table's names that contain the query or
\* are contained in it, in the table's order
static_matches(service_lower) ==
    LET Match(e) == In(service_lower, e.svc) \/ In(e.svc, service_lower)
        hits == SelectSeq(common_services, Match)
    IN [k \in 1..Len(hits) |-> hits[k].port]

\* lines 240-273: the list returned and the messages printed.  An error
\* of the lookup that is not an OSError leaves the inner try and reaches
\* the handler of lines 271-273.
found_ports(service_name, vb, os) ==
    LET static == static_matches(lower(service_name))
        found == IF os.raises = "none" /\ os.port \notin Elems(static)
                 THEN Append(static, os.port)
                 ELSE static
    IN IF os.raises = "Exception"
       THEN [ret |-> <<>>, says |-> SetToBag({Msg("Error", <<>>)})]
       ELSE [ret |-> found,
             says |-> IF ~vb THEN EmptyBag
                      ELSE IF found # <<>>
                      THEN SetToBag({Msg("PortsFor", found)})
                      ELSE SetToBag({Msg("NoPortsFound", <<>>)})]

\* no find_service_ports call yet
NoFind == [st |-> "none", service_name |-> <<>>, verbose |-> TRUE,
           os |-> [raises |-> "none", port |-> 0], ret |-> <<>>]

\* a call of find_service_ports, from entry to return: the function does
\* not wait except in the lookup
find_service_ports(service_name, vb, os) ==
    /\ pc = "idle"
    /\ fsp' = [st |-> "done", service_name |-> service_name, verbose |-> vb,
               os |-> os, ret |-> found_ports(service_name, vb, os).ret]
    /\ console' = console (+) found_ports(service_name, vb, os).says
    /\ pc' = "done"
    /\ UNCHANGED <<port_range, max_workers, verbose, resolvable,
                   ports_to_scan, futures, results, open_ports, yielded, ret,
                   executor, probe, hist, parse>>

----------------------------------------------------------------------------
(* Textual port input: the parser of the prompt inside scan_ports and      *)
(* parse_port_range of the command line.  A text is a tuple of             *)
(* one-character strings.                                                  *)

Chars == {"0", "1", "2", "-", ",", " "}

Texts == UNION {[1..n -> Chars] : n \in 0..MaxText}

Digits == <<"0", "1", "2", "3", "4", "5", "6", "7", "8", "9">>

IsDigit(c) == \E d \in 1..Len(Digits) : Digits[d] = c

DigitValue(c) == (CHOOSE d \in 1..Len(Digits) : Digits[d] = c) - 1

\* str.strip as int() applies it: leading and trailing blanks are dropped
strip(t) ==
    LET inked == {i \in 1..Len(t) : t[i] # " "}
    IN IF inked = {} THEN <<>>
       ELSE SubSeq(t, CHOOSE i \in inked : \A j \in inked : i <= j,
                      CHOOSE i \in inked : \A j \in inked : j <= i)

RECURSIVE IntOf(_)
IntOf(s) ==
    IF s = <<>> THEN 0
    ELSE 10 * IntOf(SubSeq(s, 1, Len(s) - 1)) + DigitValue(s[Len(s)])

\* int(text): the blanks around the text are ignored, what is left must be
\* decimal digits, at least one; anything else is a ValueError
int(t) ==
    LET s == strip(t)
    IN IF s # <<>> /\ \A i \in 1..Len(s) : IsDigit(s[i])
       THEN [ok |-> TRUE, val |-> IntOf(s)]
       ELSE [ok |-> FALSE, val |-> 0]

\* sep in text
Has(t, sep) == \E i \in 1..Len(t) : t[i] = sep

\* text.split(sep)
RECURSIVE split(_, _)
split(t, sep) ==
    IF ~Has(t, sep) THEN <<t>>
    ELSE LET k == CHOOSE i \in 1..Len(t) :
                     t[i] = sep /\ \A j \in 1..(i - 1) : t[j] # sep
         IN <<SubSeq(t, 1, k - 1)>> \o split(SubSeq(t, k + 1, Len(t)), sep)

\* map(int, parts), consumed to its end
map_int(parts) ==
    [ok |-> \A k \in 1..Len(parts) : int(parts[k]).ok,
     val |-> [k \in 1..Len(parts) |-> int(parts[k]).val]]

ValueError == [kind |-> "ValueError", val |-> <<>>]

\* a range is returned as a list of its two ends
parse_port_range_RangeAsList(port_str) ==
    IF Has(port_str, "-")
    THEN LET m == map_int(split(port_str, "-"))
         IN IF m.ok /\ Len(m.val) = 2
            THEN [kind |-> "list", val |-> m.val]
            ELSE ValueError
    ELSE IF Has(port_str, ",")
    THEN LET m == map_int(split(port_str, ","))
         IN IF m.ok THEN [kind |-> "list", val |-> m.val] ELSE ValueError
    ELSE IF int(port_str).ok
         THEN [kind |-> "list", val |-> <<int(port_str).val>>]
         ELSE ValueError

\* cli.py lines 226-234: the two ends are unpacked from map(int, ...), which
\* is a ValueError unless there are exactly two parts and both are integers
parse_port_range(port_str) ==
    IF Has(port_str, "-")
    THEN LET m == map_int(split(port_str, "-"))
         IN IF m.ok /\ Len(m.val) = 2
            THEN [kind |-> "tuple", val |-> m.val]
            ELSE ValueError
    ELSE IF Has(port_str, ",")
    THEN LET m == map_int(split(port_str, ","))
         IN IF m.ok THEN [kind |-> "list", val |-> m.val] ELSE ValueError
    ELSE IF int(port_str).ok
         THEN [kind |-> "list", val |-> <<int(port_str).val>>]
         ELSE ValueError

\* port_scanner.py lines 108-124: the same three cases; the ValueError of
\* the last case is raised again with the message of line 124
prompt_port_range(port_range_input) ==
    IF Has(port_range_input, "-")
    THEN LET parts == split(port_range_input, "-")
         IN IF Len(parts) = 2 /\ int(parts[1]).ok /\ int(parts[2]).ok
            THEN [kind |-> "tuple",
                  val |-> <<int(parts[1]).val, int(parts[2]).val>>]
            ELSE ValueError
    ELSE IF Has(port_range_input, ",")
    THEN LET ports == map_int(split(port_range_input, ","))
         IN IF ports.ok THEN [kind |-> "list", val |-> ports.val]
                        ELSE ValueError
    ELSE LET port == int(port_range_input)
         IN IF port.ok THEN [kind |-> "list", val |-> <<port.val>>]
                       ELSE ValueError

Unparsed == [kind |-> "none", val |-> <<>>]

NoParse == [text |-> <<>>, prompt |-> Unparsed, cli |-> Unparsed]

\* scan_ports reads the text at its prompt and parses it
PromptParse ==
    /\ parse.prompt = Unparsed
    /\ parse' = [parse EXCEPT !.prompt = prompt_port_range(parse.text)]
    /\ UNCHANGED <<pc, port_range, max_workers, verbose, resolvable,
                   ports_to_scan, futures, results, open_ports, yielded,
                   console, ret, executor, probe, hist, fsp>>

\* the command line parses the text of its --ports argument
CliParse ==
    /\ parse.cli = Unparsed
    /\ parse' = [parse EXCEPT !.cli = parse_port_range(parse.text)]
    /\ UNCHANGED <<pc, port_range, max_workers, verbose, resolvable,
                   ports_to_scan, futures, results, open_ports, yielded,
                   console, ret, executor, probe, hist, fsp>>

----------------------------------------------------------------------------

Start ==
    /\ pc = "idle"
    /\ port_range = [kind |-> "none", val |-> <<>>]
    /\ max_workers = DefaultMaxWorkers
    /\ verbose = TRUE
    /\ resolvable = TRUE
    /\ ports_to_scan = <<>>
    /\ futures = <<>>
    /\ results = <<>>
    /\ open_ports = <<>>
    /\ yielded = <<>>
    /\ console = EmptyBag
    /\ ret = None
    /\ executor = "none"
    /\ probe = [port |-> MinPort, st |-> "none", result |-> None, sock |-> "none"]
    /\ hist = NoHist
    /\ fsp = NoFind

Init == Start /\ parse = NoParse

Next ==
    \/ /\ pc = "idle"
       /\ \E pr \in PortRanges, mw \in WorkerCounts, vb \in BOOLEAN,
             res \in BOOLEAN : Call(pr, mw, vb, res)
    \/ \E i \in Pending : scan_worker_start(i)
    \/ \E i \in Running :
          \E outcome \in ConnectOutcomes(resolvable) :
            \E lookup \in LookupsFor(outcome) :
              scan_worker_finish(i, outcome, lookup)
    \/ Collect
    \/ Return
    \/ Interrupt
    \/ InterruptReturn
    \/ /\ pc = "idle"
       /\ \E port \in ProbePorts, res \in BOOLEAN : ProbeCall(port, res)
    \/ /\ pc = "probing"
       /\ \E outcome \in ConnectOutcomes(resolvable) :
             \E lookup \in LookupsFor(outcome) : ProbeReturn(outcome, lookup)
    \/ /\ pc = "idle"
       /\ \E service_name \in ServiceNames, vb \in BOOLEAN,
             os \in GetServByName : find_service_ports(service_name, vb, os)

Spec == Init /\ [][Next]_vars

----------------------------------------------------------------------------
(* A call of scan_common_ports.  The scan is the one of scan_ports, over   *)
(* 20 ports with 100 workers; the environments explored are those in which *)
(* at most MaxInFlight probes are connecting at a time and only the port   *)
(* of Responsive answers otherwise than by refusing the connection.        *)

Responsive == {443}

CommonOutcomes(port) ==
    IF ~resolvable THEN {"gaierror"}
    ELSE IF port \in Responsive THEN ConnectOutcomes(TRUE)
    ELSE {"ECONNREFUSED"}

NextCommon ==
    \/ /\ pc = "idle"
       /\ \E vb \in BOOLEAN, res \in BOOLEAN : scan_common_ports(vb, res)
    \/ /\ Cardinality(Running) < MaxInFlight
       /\ \E i \in Pending : scan_worker_start(i)
    \/ \E i \in Running :
          \E outcome \in CommonOutcomes(futures[i].port) :
            \E lookup \in LookupsFor(outcome) :
              scan_worker_finish(i, outcome, lookup)
    \/ Collect
    \/ Return
    \/ Interrupt
    \/ InterruptReturn

SpecCommon == Init /\ [][NextCommon]_vars

----------------------------------------------------------------------------
(* scan_ports called several times, one call after the other has returned. *)
(* The arguments tried are valid lists, a reversed range, an invalid list  *)
(* and an invalid format, with zero to MaxWorkers workers.                 *)

RepeatRanges ==
    {[kind |-> "list", val |-> <<80>>],
     [kind |-> "list", val |-> <<443, 80>>],
     [kind |-> "tuple", val |-> <<1, MinPort>>],
     [kind |-> "list", val |-> <<MaxPort + 1>>],
     [kind |-> "str", val |-> <<>>]}

NextRepeat ==
    \/ /\ pc \in {"idle", "done"}
       /\ hist.calls < MaxCalls
       /\ \E pr \in RepeatRanges, mw \in 0..MaxWorkers, vb \in BOOLEAN,
             res \in BOOLEAN : Call(pr, mw, vb, res)
    \/ \E i \in Pending : scan_worker_start(i)
    \/ \E i \in Running :
          \E outcome \in ConnectOutcomes(resolvable) :
            \E lookup \in LookupsFor(outcome) :
              scan_worker_finish(i, outcome, lookup)
    \/ Collect
    \/ Return
    \/ Interrupt
    \/ InterruptReturn

SpecRepeat == Init /\ [][NextRepeat]_vars

----------------------------------------------------------------------------
(* One scan_ports call in which every probe finishes: a free worker takes  *)
(* the next queued task, every connection attempt returns, raises or times *)
(* out, and the calling thread goes on whenever it can.  The interrupt is  *)
(* the user's and may or may not come.                                     *)

LiveRanges == RepeatRanges \cup {[kind |-> "list", val |-> <<22, 80, 443>>]}

WorkerStarts == \E i \in Pending : scan_worker_start(i)

WorkerFinishes ==
    \E i \in Running :
       \E outcome \in ConnectOutcomes(resolvable) :
         \E lookup \in LookupsFor(outcome) :
           scan_worker_finish(i, outcome, lookup)

NextLive ==
    \/ /\ pc = "idle"
       /\ \E pr \in LiveRanges, mw \in -1..MaxWorkers, vb \in BOOLEAN,
             res \in BOOLEAN : Call(pr, mw, vb, res)
    \/ WorkerStarts
    \/ WorkerFinishes
    \/ Collect
    \/ Return
    \/ Interrupt
    \/ InterruptReturn

SpecLive ==
    /\ Init
    /\ [][NextLive]_vars
    /\ WF_vars(WorkerStarts)
    /\ WF_vars(WorkerFinishes)
    /\ WF_vars(Collect)
    /\ WF_vars(Return)
    /\ WF_vars(InterruptReturn)

----------------------------------------------------------------------------
(* The two parsers applied to every text of at most MaxText characters.    *)

InitParse ==
    /\ Start
    /\ \E t \in Texts : parse = [NoParse EXCEPT !.text = t]

NextParse == PromptParse \/ CliParse

SpecParse == InitParse /\ [][NextParse]_vars

----------------------------------------------------------------------------
(* Vocabulary of the properties *)

\* scan_ports has returned
ScanReturned == pc = "done" /\ port_range.kind # "none"

\* scan_ports has returned through line 194, after collecting every result
Completed ==
    /\ ScanReturned
    /\ executor = "shutdown"
    /\ NextToYield = 0
    /\ ~hist.interrupted

\* the direct scan_port call has returned
ProbeReturned == pc = "done" /\ probe.st = "done"

AllFutures == [k \in 1..Len(futures) |-> k]

PortsOf(rs) == [k \in 1..Len(rs) |-> rs[k][1]]

StrictlyAscending(s) == \A i, j \in 1..Len(s) : i < j => s[i] < s[j]

OutOfRange(port) == port < MinPort \/ port > MaxPort

\* the scan_port calls that have ended
Ended == {futures[i] : i \in {j \in 1..Len(futures) :
                                futures[j].st \in {"done", "raised"}}}
         \cup (IF probe.st \in {"done", "raised"} THEN {probe} ELSE {})

----------------------------------------------------------------------------
(* C1: at every moment of a scan the number of probes in flight is at most *)
(* max_workers, also when there are more ports than workers.               *)
C1_InFlightBounded == Cardinality(Running) <= max_workers

\* more ports than workers, the pool is saturated and a task is waiting
C1_Witness ==
    /\ Len(futures) > max_workers
    /\ Cardinality(Running) = max_workers
    /\ Pending # {}

(* C2, as claimed: the open results returned are strictly ascending by     *)
(* port, with no port twice, for every scan request.                       *)
C2_SortedForEveryRequest == ScanReturned => StrictlyAscending(PortsOf(ret))

(* C2, amended: the open results come in the order of the port sequence;   *)
(* they are strictly ascending when the port sequence is, which is the     *)
(* case for every range.                                                   *)
C2_OrderOfPortSequence ==
    ScanReturned =>
      /\ \A i, j \in 1..Len(ret) : i < j =>
           \E a, b \in 1..Len(ports_to_scan) :
              /\ a < b
              /\ ports_to_scan[a] = ret[i][1]
              /\ ports_to_scan[b] = ret[j][1]
      /\ StrictlyAscending(ports_to_scan) => StrictlyAscending(PortsOf(ret))
      /\ port_range.kind = "tuple" => StrictlyAscending(PortsOf(ret))

\* a reversed range was scanned, probes completed out of order, two ports
\* were found open
C2_Witness ==
    /\ ScanReturned
    /\ port_range.kind = "tuple"
    /\ Len(port_range.val) = 2
    /\ port_range.val[1] > port_range.val[2]
    /\ hist.outOfOrder
    /\ Len(ret) >= 2

(* C3: the list returned by a completed scan is determined by the port     *)
(* sequence and the per-port probe results alone: it is the open results   *)
(* in submission order, whatever order the probes completed in; at every   *)
(* moment the results taken so far are those of the first tasks.           *)
C3_CompletionOrderIrrelevant ==
    /\ yielded = [k \in 1..Len(yielded) |-> k]
    /\ Completed => ret = SelectSeq(ResultsOf(AllFutures), IsOpen)

\* a later probe completed before an earlier one, both are in the result
C3_Witness ==
    /\ Completed
    /\ hist.outOfOrder
    /\ Len(ret) = Len(futures)
    /\ Len(ret) >= 2

(* C4, as claimed: with an unresolvable target no probe is dispatched, the *)
(* resolution failure is reported exactly once, and the scan returns an    *)
(* empty result with nothing counted as scanned.                           *)
C4_ShortCircuit ==
    (ScanReturned /\ executor # "none" /\ ~resolvable) =>
      /\ \A i \in 1..Len(futures) : futures[i].st \in {"pending", "cancelled"}
      /\ CopiesIn(Msg("Unresolved", <<>>), console) = 1
      /\ ret = <<>>
      /\ Len(results) = 0

(* C4, amended: with an unresolvable target a completed scan over N ports  *)
(* dispatches all N probes, each reports the resolution failure (N         *)
(* reports), the result is empty and N ports are counted as scanned.       *)
C4_FailurePerProbe ==
    (Completed /\ ~resolvable) =>
      /\ \A i \in 1..Len(futures) :
           futures[i].st = "done" /\ futures[i].sock # "none"
      /\ Len(futures) = Len(ports_to_scan)
      /\ CopiesIn(Msg("Unresolved", <<>>), console) = Len(ports_to_scan)
      /\ ret = <<>>
      /\ Len(results) = Len(ports_to_scan)
      /\ verbose =>
           CopiesIn(Msg("Found", <<0, Len(ports_to_scan)>>), console) = 1

\* a completed scan of several ports of an unresolvable target
C4_Witness == Completed /\ ~resolvable /\ Len(ports_to_scan) >= 2

(* C5, as claimed: an interrupted scan returns every open result collected *)
(* before the interrupt.                                                   *)
C5_KeepsCollected ==
    (ScanReturned /\ hist.interrupted) =>
      \A k \in 1..Len(hist.openAtInterrupt) :
        \E j \in 1..Len(ret) : ret[j] = hist.openAtInterrupt[k]

(* C5, amended: after an interrupt no queued probe is started (all are     *)
(* cancelled); scan_ports returns once the probes in flight have ended,    *)
(* and returns the empty list, dropping the results collected so far.      *)
C5_InterruptReturnsEmpty ==
    hist.interrupted =>
      /\ Pending = {}
      /\ pc = "done" =>
           /\ Running = {}
           /\ ret = <<>>
           /\ CopiesIn(Msg("Interrupted", <<>>), console) = 1

\* an interrupt after an open result was collected, with a probe in flight
\* and a queued one cancelled
C5_Witness ==
    /\ pc = "done"
    /\ hist.interrupted
    /\ hist.openAtInterrupt # <<>>
    /\ \E i \in 1..Len(futures) : futures[i].st = "cancelled"
    /\ \E i \in 1..Len(futures) :
         futures[i].st = "done" /\ i > Len(yielded)

(* C6: every scan_port call that created a socket has closed it by the     *)
(* time it returns.                                                        *)
C6_SocketClosedOnReturn == \A p \in Ended : p.sock # "open"

(* C7: every per-probe failure is absorbed in scan_port, which returns     *)
(* (port, False, '') and never raises; a failing probe never aborts the    *)
(* scan, and each port's result is that of its own probe.                  *)
C7_FailuresAbsorbed ==
    /\ \A p \in Ended :
         /\ p.st = "done"
         /\ Len(p.result) = 3
         /\ p.result[1] = p.port
         /\ ~IsOpen(p.result) => p.result = <<p.port, FALSE, "">>
    /\ pc # "failed"
    /\ Completed =>
         /\ \A i \in 1..Len(futures) : futures[i].st = "done"
         /\ results = ResultsOf(AllFutures)

\* a completed scan in which a probe hit a socket error and another port
\* was found open
C7_Witness ==
    /\ Completed
    /\ \E i \in 1..Len(futures) :
         CopiesIn(Msg("ConnectError", <<futures[i].port>>), console) >= 1
    /\ Len(ret) >= 1

(* C8: a completed scan returns exactly the probe results that are open,   *)
(* and counts as scanned as many ports as the port sequence holds.         *)
C8_ExactlyTheOpenResults ==
    Completed =>
      /\ \A k \in 1..Len(ret) : IsOpen(ret[k])
      /\ {ret[k] : k \in 1..Len(ret)} =
           {futures[i].result : i \in {j \in 1..Len(futures) :
                                         IsOpen(futures[j].result)}}
      /\ Len(ret) = Cardinality({i \in 1..Len(futures) :
                                   IsOpen(futures[i].result)})
      /\ Len(results) = Len(ports_to_scan)
      /\ verbose =>
           CopiesIn(Msg("Found", <<Len(ret), Len(ports_to_scan)>>), console) = 1

\* three ports, the first refused, the other two open
C8_Witness ==
    /\ Completed
    /\ Len(ports_to_scan) = 3
    /\ ~IsOpen(futures[1].result)
    /\ futures[1].sock = "closed"
    /\ PortsOf(ret) = <<ports_to_scan[2], ports_to_scan[3]>>

C11_RangeExpansion ==
    (/\ pc # "idle"
     /\ port_range.kind = "tuple"
     /\ Len(port_range.val) = 2
     /\ ~OutOfRange(port_range.val[1])
     /\ ~OutOfRange(port_range.val[2])) =>
       LET low == port_range.val[1]
           high == port_range.val[2]
           lo == IF low <= high THEN low ELSE high
           hi == IF low <= high THEN high ELSE low
       IN /\ Len(ports_to_scan) = hi - lo + 1
          /\ \A k \in 1..Len(ports_to_scan) : ports_to_scan[k] = lo + k - 1
          /\ CopiesIn(Msg("InvalidFormat", <<>>), console) = 0
          /\ \A k \in 1..Len(ports_to_scan) :
                CopiesIn(Msg("InvalidPort", <<ports_to_scan[k]>>), console) = 0
          /\ max_workers > 0 =>
                /\ executor # "none"
                /\ Len(futures) = Len(ports_to_scan)
                /\ \A k \in 1..Len(futures) : futures[k].port = lo + k - 1

\* a reversed range of two valid ports has been expanded and its probes
\* submitted
C11_Witness ==
    /\ pc = "collecting"
    /\ port_range.kind = "tuple"
    /\ Len(port_range.val) = 2
    /\ port_range.val[1] > port_range.val[2]
    /\ ~OutOfRange(port_range.val[1])
    /\ ~OutOfRange(port_range.val[2])
    /\ Len(futures) >= 2

\* a probe that returned open = true has a label: the name of the lookup
\* or "unknown"
Labelled(p) ==
    (p.st = "done" /\ IsOpen(p.result)) =>
      /\ p.result[3] # ""
      /\ p.result[3] = getservbyport(p.port) \/ p.result[3] = "unknown"

(* C12: every result with open = true, returned by scan_port or held in    *)
(* the list scan_ports returns, carries a non-empty service label: the     *)
(* name the lookup found, or "unknown".                                    *)
C12_OpenHasLabel ==
    /\ \A i \in 1..Len(futures) : Labelled(futures[i])
    /\ Labelled(probe)
    /\ ScanReturned =>
         \A k \in 1..Len(ret) :
           IsOpen(ret[k]) =>
             /\ ret[k][3] # ""
             /\ ret[k][3] \in {getservbyport(ret[k][1]), "unknown"}

\* a completed scan returned a result labelled by the lookup and a result
\* labelled "unknown"
C12_Witness ==
    /\ Completed
    /\ \E k \in 1..Len(ret) : ret[k][3] = "unknown"
    /\ \E k \in 1..Len(ret) : ret[k][3] = getservbyport(ret[k][1])

\* a probe that returned open = false has the empty label; a probe that
\* returned answers for its own port
Unlabelled(p) ==
    p.st = "done" =>
      /\ p.result[1] = p.port
      /\ ~IsOpen(p.result) => p.result[3] = ""

(* C13: every result of scan_port with open = false has the empty service  *)
(* label, and the port of every result is the port the probe was asked     *)
(* for.                                                                    *)
C13_ClosedHasNoLabel ==
    /\ \A i \in 1..Len(futures) : Unlabelled(futures[i])
    /\ Unlabelled(probe)

\* a direct probe of a valid port ended closed after connect_ex returned
\* an errno
C13_Witness ==
    /\ ProbeReturned
    /\ probe.port = 443
    /\ probe.sock = "closed"
    /\ ~IsOpen(probe.result)

(* C14, as the spec states it: the label of an open port is the name the   *)
(* table of well-known services holds for it, also when the OS service     *)
(* database has no entry for the port.                                     *)
C14_StaticTableFirst ==
    (/\ ProbeReturned
     /\ IsOpen(probe.result)
     /\ hist.lookup = "OSError"
     /\ \E k \in 1..Len(common_services) :
           common_services[k].port = probe.port) =>
       probe.result[3] = name_for_port(probe.port)

(* C14, amended: the label of an open port is the name the OS service      *)
(* database holds for it, and "unknown" when the database has no entry,    *)
(* whether or not the table of well-known services names the port.         *)
C14_LabelFromOsDatabase ==
    (ProbeReturned /\ IsOpen(probe.result)) =>
      probe.result[3] = IF hist.lookup = "name"
                        THEN getservbyport(probe.port)
                        ELSE "unknown"

\* port 5432 was found open, the OS database has no entry for it, and the
\* label is "unknown" although the table names the port
C14_Witness ==
    /\ ProbeReturned
    /\ probe.port = 5432
    /\ IsOpen(probe.result)
    /\ hist.lookup = "OSError"
    /\ probe.result[3] = "unknown"
    /\ name_for_port(probe.port) = "postgresql"

\* find_service_ports has returned
FindReturned == pc = "done" /\ fsp.st = "done"

\* the ports of the table's names that contain the name or are contained
\* in it
StaticPortsFor(name) ==
    {common_services[k].port : k \in
        {j \in 1..Len(common_services) :
            \/ In(name, common_services[j].svc)
            \/ In(common_services[j].svc, name)}}

(* C15, as the spec states it: find_service_ports returns exactly the union *)
(* of the static ports matching the lower-cased name in either direction    *)
(* and the port of the OS lookup when that lookup succeeds, no port twice.  *)
C15_ExactUnion ==
    FindReturned =>
      /\ Elems(fsp.ret) =
            StaticPortsFor(lower(fsp.service_name))
            \cup (IF fsp.os.raises = "none" THEN {fsp.os.port} ELSE {})
      /\ \A i, j \in 1..Len(fsp.ret) : i # j => fsp.ret[i] # fsp.ret[j]

(* C16, as the spec states it: find_service_ports('mail') returns a        *)
(* non-empty list holding 25 or 143 by substring match against the static  *)
(* names, also when the OS lookup finds nothing.                           *)
C16_MailBySubstring ==
    (/\ FindReturned
     /\ lower(fsp.service_name) = <<"m", "a", "i", "l">>
     /\ fsp.os.raises = "OSError") =>
       /\ fsp.ret # <<>>
       /\ 25 \in Elems(fsp.ret) \/ 143 \in Elems(fsp.ret)

(* C17, as the spec states it: find_service_ports('http') returns a list   *)
(* holding 80; a name that matches no static entry and is unknown to the   *)
(* OS gives the empty list and no error.                                   *)
C17_HttpAndUnknownName ==
    FindReturned =>
      /\ fsp.service_name = <<"h", "t", "t", "p">> => 80 \in Elems(fsp.ret)
      /\ (/\ StaticPortsFor(lower(fsp.service_name)) = {}
          /\ fsp.os.raises = "OSError") =>
            /\ fsp.ret = <<>>
            /\ CopiesIn(Msg("Error", <<>>), console) = 0

(* C18, as the spec states it: when the OS lookup fails with an error that *)
(* is not a socket/OS error, the ports matched from the static table are   *)
(* still returned and the error is reported.                               *)
C18_StaticKeptOnUnexpectedError ==
    (FindReturned /\ fsp.os.raises = "Exception") =>
      /\ StaticPortsFor(lower(fsp.service_name)) \subseteq Elems(fsp.ret)
      /\ CopiesIn(Msg("Error", <<>>), console) = 1

(* C19: scan_common_ports(target, timeout) is scan_ports over the fixed    *)
(* list of 20 ports with the same target and the default 100 workers: it   *)
(* probes exactly these ports, in this order, and returns the open results *)
(* of these probes, as scan_ports does.                                    *)
C19_CommonPortsScan ==
    hist.via = "scan_common_ports" =>
      LET fixed == <<21, 22, 23, 25, 53, 80, 110, 115, 135, 139, 143, 194,
                     443, 445, 1433, 3306, 3389, 5632, 5900, 8080>>
      IN /\ port_range = [kind |-> "list", val |-> fixed]
         /\ max_workers = 100
         /\ ports_to_scan = fixed
         /\ Len(futures) = 20
         /\ \A k \in 1..Len(futures) : futures[k].port = fixed[k]
         /\ Completed =>
               /\ ret = SelectSeq(ResultsOf(AllFutures), IsOpen)
               /\ \A k \in 1..Len(futures) : futures[k].st = "done"

\* a scan of the common ports completed, probed 20 ports and found port
\* 443 open
C19_Witness ==
    /\ hist.via = "scan_common_ports"
    /\ Completed
    /\ Len(futures) = 20
    /\ PortsOf(ret) = <<443>>

(* C20: in a sequence of scan_ports calls the result of a call depends on *)
(* its own arguments and the outcomes of its own probes only, whatever the *)
(* earlier calls were and however they ended: the probes, the collected    *)
(* results and the returned list of a later call are those of a first call *)
(* with the same arguments and outcomes.                                   *)
C20_CallsIndependent ==
    hist.calls >= 2 =>
      LET rejected == \/ port_range.kind = "str"
                      \/ \E k \in 1..Len(ports_to_scan) :
                            OutOfRange(ports_to_scan[k])
                      \/ max_workers <= 0
      IN /\ Len(futures) = IF rejected THEN 0 ELSE Len(ports_to_scan)
         /\ Len(results) <= Len(futures)
         /\ \A k \in 1..Len(results) : results[k] = futures[k].result
         /\ \A k \in 1..Len(open_ports) :
               \E j \in 1..Len(futures) : open_ports[k] = futures[j].result
         /\ \A i \in 1..Len(futures) :
               futures[i].st = "done" => futures[i].result[1] = ports_to_scan[i]
         /\ ScanReturned =>
               ret = IF rejected \/ hist.interrupted
                     THEN <<>>
                     ELSE SelectSeq(ResultsOf(AllFutures), IsOpen)

\* a verbose call found a port open after an earlier call that found a
\* port open too and was interrupted
C20_Witness ==
    /\ hist.calls = 2
    /\ hist.prev = "interrupted"
    /\ verbose
    /\ Completed
    /\ Len(ret) = 1
    /\ Len(futures) = 1

(* C21: an explicit list of valid ports is probed exactly as given: the    *)
(* port sequence, the probes submitted and, when the scan completes, the   *)
(* results collected hold the elements of the list in the order of the     *)
(* list, repeated ports included.                                          *)
C21_ListProbedAsGiven ==
    (/\ pc # "idle"
     /\ port_range.kind = "list"
     /\ \A k \in 1..Len(port_range.val) : ~OutOfRange(port_range.val[k])) =>
       /\ ports_to_scan = port_range.val
       /\ max_workers > 0 =>
             /\ Len(futures) = Len(port_range.val)
             /\ \A k \in 1..Len(futures) : futures[k].port = port_range.val[k]
       /\ Completed => PortsOf(results) = port_range.val

\* a completed scan of a list that is neither sorted nor free of repeats
C21_Witness ==
    /\ Completed
    /\ port_range.kind = "list"
    /\ port_range.val = <<MaxPort, MinPort, MaxPort>>
    /\ PortsOf(results) = <<65535, 0, 65535>>

WorkerStep(i) ==
    /\ Len(futures') = Len(futures)
    /\ futures[i].st \in {"pending", "connecting"}
    /\ futures'[i].st \in {"connecting", "done", "raised"}
    /\ futures'[i] # futures[i]

\* a worker step writes the record of its own probe only, and none of the
\* structures of the calling thread
WritesOwnProbeOnly(i) ==
    /\ \A j \in 1..Len(futures) : j # i => futures'[j] = futures[j]
    /\ UNCHANGED <<pc, results, open_ports, yielded, ret, ports_to_scan,
                   executor, port_range, max_workers, verbose>>

(* C23, as the spec states it: a probe writes only its own socket and its  *)
(* own result, also on its error paths; nothing shared is written by a     *)
(* probe.                                                                  *)
C23_ProbesWriteNothingShared ==
    [][\A i \in 1..Len(futures) :
          WorkerStep(i) => (WritesOwnProbeOnly(i) /\ console' = console)]_vars

(* C23, amended: a probe writes its own socket and result and none of the  *)
(* structures of the scan; results and open_ports change in steps of the   *)
(* calling thread only; but a probe that ends on an error path prints its  *)
(* message to the console the whole module shares, from its worker thread. *)
C23_SingleCollector ==
    [][/\ \A i \in 1..Len(futures) :
            WorkerStep(i) =>
              /\ WritesOwnProbeOnly(i)
              /\ console' # console =>
                    /\ futures'[i].st = "done"
                    /\ futures'[i].result = <<futures[i].port, FALSE, "">>
                    /\ futures'[i].sock = "open"
       /\ (results' # results \/ open_ports' # open_ports) =>
            /\ pc = "collecting"
            /\ futures' = futures]_vars

\* a completed scan in which two probes of different ports each printed a
\* connection error and the calling thread collected both results
C23_Witness ==
    /\ Completed
    /\ Len(results) >= 2
    /\ \E i, j \in 1..Len(futures) :
         /\ futures[i].port # futures[j].port
         /\ CopiesIn(Msg("ConnectError", <<futures[i].port>>), console) >= 1
         /\ CopiesIn(Msg("ConnectError", <<futures[j].port>>), console) >= 1

(* C24: in a completed scan every element of the expanded port sequence   *)
(* has been probed exactly once: there is one probe per position, each     *)
(* has run to its result whatever the earlier probes did, and a probe that *)
(* has started is never queued again nor run a second time.                *)
C24_EachPortProbedOnce ==
    /\ [](Completed =>
            /\ Len(futures) = Len(ports_to_scan)
            /\ Len(results) = Len(ports_to_scan)
            /\ \A k \in 1..Len(futures) :
                 /\ futures[k].port = ports_to_scan[k]
                 /\ futures[k].st = "done"
                 /\ results[k][1] = ports_to_scan[k])
    /\ [][Len(futures') = Len(futures) =>
            \A i \in 1..Len(futures) :
               /\ futures[i].st = "connecting" =>
                     futures'[i].st \in {"connecting", "done", "raised"}
               /\ futures[i].st \in {"done", "raised", "cancelled"} =>
                     futures'[i] = futures[i]]_vars

\* a completed scan of three ports: the first probe hit a socket error,
\* the second timed out, the third was found open
C24_Witness ==
    /\ Completed
    /\ Len(futures) = 3
    /\ CopiesIn(Msg("ConnectError", <<futures[1].port>>), console) >= 1
    /\ futures[1].sock = "open"
    /\ futures[2].sock = "closed"
    /\ ~IsOpen(futures[2].result)
    /\ IsOpen(futures[3].result)

(* C25: once the connection has succeeded, the service lookup never turns *)
(* the probe into a failure: whether the lookup finds a name, finds no     *)
(* mapping or fails with an error of any kind, the result has open = true. *)
C25_LookupNeverFailsProbe ==
    (ProbeReturned /\ hist.lookup # "none") => IsOpen(probe.result)

\* a text that is one or more decimal digits
IsNumber(t) == t # <<>> /\ \A i \in 1..Len(t) : IsDigit(t[i])

\* the number a text of decimal digits denotes
RECURSIVE Value(_)
Value(t) ==
    IF t = <<>> THEN 0
    ELSE DigitValue(Head(t)) * 10 ^ (Len(t) - 1) + Value(Tail(t))

\* the positions at which the numbers of a list text start
Starts(t) == {1} \cup {i + 1 : i \in {j \in 1..Len(t) : t[j] = ","}}

\* the n-th number of a list text
Item(t, n) ==
    LET from == CHOOSE a \in Starts(t) :
                   Cardinality({b \in Starts(t) : b < a}) = n - 1
        upto == CHOOSE z \in from..(Len(t) + 1) :
                   /\ z = Len(t) + 1 \/ t[z] = ","
                   /\ \A y \in from..(z - 1) : t[y] # ","
    IN SubSeq(t, from, upto - 1)

\* 'a-b'
IsRangeText(t) ==
    \E k \in 1..Len(t) :
       /\ t[k] = "-"
       /\ IsNumber(SubSeq(t, 1, k - 1))
       /\ IsNumber(SubSeq(t, k + 1, Len(t)))

\* 'a,b,c'
IsListText(t) ==
    /\ Cardinality(Starts(t)) >= 2
    /\ \A n \in 1..Cardinality(Starts(t)) : IsNumber(Item(t, n))

\* the structured spec the claim gives for a well-formed text
Structured(t) ==
    IF IsRangeText(t)
    THEN LET k == CHOOSE i \in 1..Len(t) : t[i] = "-"
         IN [kind |-> "tuple",
             val |-> <<Value(SubSeq(t, 1, k - 1)),
                       Value(SubSeq(t, k + 1, Len(t)))>>]
    ELSE IF IsListText(t)
    THEN [kind |-> "list",
          val |-> [n \in 1..Cardinality(Starts(t)) |-> Value(Item(t, n))]]
    ELSE [kind |-> "list", val |-> <<Value(t)>>]

WellFormed(t) == IsRangeText(t) \/ IsListText(t) \/ IsNumber(t)

(* C26: the text 'a-b' is parsed into the range (a, b), 'a,b,c' into the   *)
(* list [a, b, c] and a bare integer n into [n], by the prompt parser of   *)
(* scan_ports and by cli.parse_port_range alike: the two give the same     *)
(* structured spec for every well-formed text (and both reject the same    *)
(* texts).                                                                 *)
C26_ParsersAgree ==
    /\ (parse.prompt # Unparsed /\ WellFormed(parse.text)) =>
          parse.prompt = Structured(parse.text)
    /\ (parse.cli # Unparsed /\ WellFormed(parse.text)) =>
          parse.cli = Structured(parse.text)
    /\ (parse.prompt # Unparsed /\ parse.cli # Unparsed) =>
          parse.prompt = parse.cli

\* both parsers have read '2-10' and made the range (2, 10) of it
C26_Witness ==
    /\ parse.text = <<"2", "-", "1", "0">>
    /\ parse.prompt = [kind |-> "tuple", val |-> <<2, 10>>]
    /\ parse.cli = [kind |-> "tuple", val |-> <<2, 10>>]

(* C27: if every probe finishes, a scan_ports call that has started its   *)
(* pool eventually returns, and whenever scan_ports has returned, by       *)
(* completion, error or interrupt, no probe of the scan is in flight or    *)
(* queued and the pool is shut down.                                       *)
C27_ReturnsWithPoolShutDown ==
    /\ [](ScanReturned =>
            /\ Running = {}
            /\ Pending = {}
            /\ executor \in {"none", "shutdown"}
            /\ executor = "none" => futures = <<>>)
    /\ (pc = "collecting") ~> (pc = "done")

\* an interrupted scan has returned: one probe had been collected, one was
\* in flight at the interrupt and has ended, one was queued and cancelled
C27_Witness ==
    /\ ScanReturned
    /\ hist.interrupted
    /\ Len(futures) = 3
    /\ Len(yielded) = 1
    /\ futures[2].st = "done"
    /\ futures[3].st = "cancelled"
    /\ executor = "shutdown"

(* C28: a completed scan returns the open results of its probes in the   *)
(* order of the port sequence, in verbose mode (one result at a time) as   *)
(* in non-verbose mode (all at once): the list returned depends on the     *)
(* port sequence and the probe outcomes only, and verbosity only on what   *)
(* scan_ports prints.  In verbose mode the progress counter after the k-th *)
(* collected result is k, and it ends at the number of ports.              *)
C28_VerbosityOnlyPrints ==
    /\ Completed =>
          /\ results = ResultsOf(AllFutures)
          /\ open_ports = SelectSeq(results, IsOpen)
          /\ ret = open_ports
          /\ verbose => hist.progress = Len(ports_to_scan)
    /\ verbose => hist.progress = Len(yielded)
    /\ ~verbose =>
          /\ hist.progress = 0
          /\ CopiesIn(Msg("Scanning", <<Len(ports_to_scan)>>), console) = 0
          /\ CopiesIn(Msg("Found", <<Len(open_ports), Len(ports_to_scan)>>),
                      console) = 0

\* a verbose scan of three ports has completed with two of them open and
\* the counter at three
C28_Witness ==
    /\ Completed
    /\ verbose
    /\ hist.progress = 3
    /\ Len(ret) = 2
    /\ CopiesIn(Msg("Found", <<2, 3>>), console) = 1

(* C29: a scan_ports call with max_workers <= 0 dispatches no probe and   *)
(* returns the empty list after reporting an error, also when the port     *)
(* sequence is valid and not empty.                                        *)
C29_NoWorkersNoScan ==
    (/\ pc # "idle"
     /\ max_workers <= 0
     /\ port_range.kind \in {"tuple", "list"}
     /\ \A k \in 1..Len(ports_to_scan) : ~OutOfRange(ports_to_scan[k])) =>
       /\ pc = "done"
       /\ executor = "none"
       /\ futures = <<>>
       /\ ret = <<>>
       /\ CopiesIn(Msg("InvalidWorkers", <<>>), console) = 1

\* a call with three valid ports and a negative number of workers has
\* returned
C29_Witness ==
    /\ ScanReturned
    /\ max_workers < 0
    /\ ports_to_scan = <<22, 80, 443>>
    /\ ret = <<>>

\* the error messages of the handlers of scan_ports
ErrorReported ==
    \/ CopiesIn(Msg("InvalidFormat", <<>>), console) = 1
    \/ CopiesIn(Msg("InvalidWorkers", <<>>), console) = 1
    \/ CopiesIn(Msg("Interrupted", <<>>), console) = 1
    \/ CopiesIn(Msg("Unexpected", <<>>), console) >= 1
    \/ \E k \in 1..Len(ports_to_scan) :
          CopiesIn(Msg("InvalidPort", <<ports_to_scan[k]>>), console) = 1

====
